---- MODULE Spec2Model ----
(***************************************************************************)
(* Model of script.js (Tripos practice app): the progress synchronisation  *)
(* against the GitHub contents API (loadProgressFromGithub,                *)
(* saveProgressToGithub, githubApiFetch), the checkbox handler, and the    *)
(* question selection of generateQuestions.                                *)
(*                                                                         *)
(* The names of the catalog are sequences of tokens; the strings that the  *)
(* program searches or takes apart (error messages, file texts, a JSON     *)
(* string) are sequences of characters.  Arrays are sequences, JavaScript  *)
(* Sets the sequence of their elements in insertion order.                 *)
(***************************************************************************)
EXTENDS FiniteSets, Integers, Sequences, TLC

\* ------------------------------------------------------------------ bounds
\* Load / Save invocations that reach the network in one run, and changes
\* made to progress.json by other writers in one run
MaxRequests == 2
MaxExternal == 1
\* Load / Save invocations that reach the network in one run of rounds of
\* Save and Load (two Saves, each followed by a Load)
MaxRounds == 4
\* Load / Save invocations awaiting the network at the same time: with an
\* external writer, and without one
MaxInFlight == 1
MaxOverlap == 2
\* largest count typed into #num-questions before a click on Generate
MaxGen == 2
\* selection model: number of modules, questions per module, requested count
NumCats == 3
MaxBucket == 2
MaxNum == 4
\* largest number of completed questions when Generate is clicked
MaxDone == 3
\* flattening model: largest number of labels in one list of IB.json
MaxLabels == 2

\* ----------------------------------------------------------------- helpers
Range(s) == { s[i] : i \in 1..Len(s) }

Min(a, b) == IF a < b THEN a ELSE b

\* Array.prototype.splice(i, 1) with a 0-based index: the array without it
SpliceOut(arr, i) == [ k \in 1..(Len(arr) - 1) |-> IF k <= i THEN arr[k] ELSE arr[k + 1] ]

\* Array.prototype.indexOf on a 1-based sequence (0 when absent)
IndexOf(arr, x) == IF x \in Range(arr)
                   THEN CHOOSE i \in 1..Len(arr) : arr[i] = x /\ \A j \in 1..(i - 1) : arr[j] # x
                   ELSE 0

\* A JavaScript Set is the sequence of its elements in insertion order, each
\* element once.  Set.prototype.has / add / delete:
SetHas(s, x) == x \in Range(s)
SetAdd(s, x) == IF x \in Range(s) THEN s ELSE Append(s, x)
SetDelete(s, x) == SelectSeq(s, LAMBDA y : y # x)

\* new Set(iterable): the elements in order of first appearance
RECURSIVE NewSet(_)
NewSet(arr) == IF arr = <<>> THEN <<>>
               ELSE SetAdd(NewSet(SubSeq(arr, 1, Len(arr) - 1)), arr[Len(arr)])

\* Array.from(set): the elements in insertion order
ArrayFrom(set) == set

\* the keys of an object that gains key x: keys keep their first position
PushUnique(keys, x) == IF x \in Range(keys) THEN keys ELSE Append(keys, x)

\* String.prototype.includes
Includes(msg, needle) ==
    \E i \in 0..(Len(msg) - Len(needle)) : SubSeq(msg, i + 1, i + Len(needle)) = needle

\* ----------------------------------------------------------------- catalog
\* IB.json as fetched by fetchQuestionData: an object whose michaelmas maps
\* module -> paper -> list of years (kept as sequences, in key order)
IBJson(modules) == [michaelmas |-> modules]

Catalog == IBJson(<< [module |-> <<"Chem">>, papers |-> << [paper |-> <<"P1">>, years |-> << <<"2020">> >>] >>],
                     [module |-> <<"Bio">>,  papers |-> << [paper |-> <<"P1">>, years |-> << <<"2019">> >>] >>] >>)

\* an IB.json whose module name holds an en dash
WideCatalog == IBJson(<< [module |-> <<"Maths", "U+2013", "A">>,
                          papers |-> << [paper |-> <<"P1">>, years |-> << <<"2021">> >>] >>] >>)

\* an IB.json that lists a label twice
TwiceCatalog == IBJson(<< [module |-> <<"A">>, papers |-> << [paper |-> <<"C">>, years |-> << <<"2019">>, <<"2019">> >>] >>] >>)

\* an IB.json with no module
EmptyCatalog == IBJson(<<>>)

\* the IB.json files that the fetch of line 56 may return
Catalogs == { Catalog, WideCatalog, TwiceCatalog, EmptyCatalog }

\* line 21: null, which is no catalog
NullData == [null |-> TRUE]

\* `${moduleName}_${paperName}_${year}`                            (line 238)
MakeId(moduleName, paperName, year) == moduleName \o <<"_">> \o paperName \o <<"_">> \o year

RECURSIVE Concat(_)
Concat(seqs) == IF seqs = <<>> THEN <<>> ELSE Head(seqs) \o Concat(Tail(seqs))

\* getFlattenedQuestions                                       (lines 230-244)
getFlattenedQuestions(data) ==
    LET modules == data.michaelmas IN
    Concat([ m \in 1..Len(modules) |->
        Concat([ p \in 1..Len(modules[m].papers) |->
            [ y \in 1..Len(modules[m].papers[p].years) |->
                [ id     |-> MakeId(modules[m].module, modules[m].papers[p].paper, modules[m].papers[p].years[y]),
                  module |-> modules[m].module,
                  paper  |-> modules[m].papers[p].paper,
                  year   |-> modules[m].papers[p].years[y] ] ] ]) ])

AllIds == { q.id : q \in Range(getFlattenedQuestions(Catalog)) }

All == <<"all">>

\* ------------------------------------------------- remote store, messages
\* the sha of a blob identifies its content; null is the empty sequence
NoSha == <<>>
ShaOf(content) == << content >>

\* a stored file content is the text of the file.  json tells what the text
\* is: "array" (a JSON array of strings, items), "null", "string" (a JSON
\* string, items are its characters), "other" (a JSON number, boolean or
\* object) or "none" (not JSON, items are the characters of the text)
JsonArray(items) == [json |-> "array", items |-> items]
JsonNull == [json |-> "null", items |-> <<>>]
JsonString(str) == [json |-> "string", items |-> str]
JsonOther == [json |-> "other", items |-> <<>>]
NotJson(text) == [json |-> "none", items |-> text]

\* the empty text
Garbage == NotJson(<<>>)

\* the tokens that are a character above U+00FF, written by their code
\* point (en dash, em dash, euro sign)
WideTokens == { "U+2013", "U+2014", "U+20AC" }
Latin1(str) == \A i \in 1..Len(str) : str[i] \notin WideTokens

\* btoa(JSON.stringify(Array.from(masterDoneList))): btoa throws on a
\* character above U+00FF                                      (lines 184-185)
EncodeContent(master) ==
    IF \A i \in 1..Len(master) : Latin1(master[i])
    THEN [thrown |-> FALSE, value |-> JsonArray(ArrayFrom(master))]
    ELSE [thrown |-> TRUE, value |-> Garbage]

\* JSON.parse on a text that is not JSON, as V8 does it.  The texts covered
\* are those that, after white space, do not begin a number, a string, an
\* array or an object and are not a complete literal followed by more text
\* (finding the rejected character of the others takes the whole grammar).
WhiteSpace == { " ", "\t", "\n", "\r" }
Literals == { <<"t", "r", "u", "e">>, <<"f", "a", "l", "s", "e">>, <<"n", "u", "l", "l">> }
NumberStart == { "-", "0", "1", "2", "3", "4", "5", "6", "7", "8", "9" }
SpecialStrings == { <<"u", "n", "d", "e", "f", "i", "n", "e", "d">>, <<"N", "a", "N">>, <<"I", "n", "f", "i", "n", "i", "t", "y">>, <<"[", "o", "b", "j", "e", "c", "t", " ", "O", "b", "j", "e", "c", "t", "]">> }

\* the characters of context that the message shows on each side, and the
\* length from which a text is shown in part only
ContextCharacters == 10
ContextMinLength == 2 * ContextCharacters + 1

RECURSIVE SkipWhiteSpace(_, _)
SkipWhiteSpace(text, pos) ==
    IF pos < Len(text) /\ text[pos + 1] \in WhiteSpace THEN SkipWhiteSpace(text, pos + 1) ELSE pos

\* the offset at which the scan of `literal`, begun at offset pos, stops:
\* the first character that differs, or the end of the text
LiteralMismatch(text, pos, literal) ==
    LET n == Min(Len(literal), Len(text) - pos)
        bad == { i \in 1..n : text[pos + i] # literal[i] }
    IN  IF bad = {} THEN pos + n ELSE pos + (CHOOSE i \in bad : \A j \in bad : i <= j) - 1

\* the offset of the character that JSON.parse rejects (Len(text): the end)
ErrorPos(text) ==
    LET start == SkipWhiteSpace(text, 0) IN
    IF start >= Len(text) THEN Len(text)
    ELSE LET begun == { l \in Literals : l[1] = text[start + 1] } IN
         IF begun = {} THEN start ELSE LiteralMismatch(text, start, CHOOSE l \in begun : TRUE)

\* the message of the SyntaxError: a text of less than ContextMinLength
\* characters is quoted whole, of a longer one ContextCharacters on each
\* side of the rejected character; a rejected digit or quote is reported by
\* its position (left out here) and nothing is quoted
JsonParseMessage(text) ==
    LET pos == ErrorPos(text)
        quote == <<"\"">>
        dots == <<".", ".", ".">>
        shown == IF Len(text) < ContextMinLength
                 THEN quote \o text \o quote
                 ELSE IF pos < ContextCharacters
                 THEN quote \o SubSeq(text, 1, pos + ContextCharacters) \o quote \o dots
                 ELSE IF pos < Len(text) - ContextCharacters
                 THEN dots \o quote \o SubSeq(text, pos - ContextCharacters + 1, pos + ContextCharacters)
                           \o quote \o dots
                 ELSE dots \o quote \o SubSeq(text, pos - ContextCharacters + 1, Len(text)) \o quote
    IN  IF pos >= Len(text)
        THEN <<"U", "n", "e", "x", "p", "e", "c", "t", "e", "d", " ", "e", "n", "d", " ", "o", "f", " ", "J", "S", "O", "N", " ", "i", "n", "p", "u", "t">>
        ELSE IF text[pos + 1] \in NumberStart
        THEN <<"U", "n", "e", "x", "p", "e", "c", "t", "e", "d", " ", "n", "u", "m", "b", "e", "r", " ", "i", "n", " ", "J", "S", "O", "N", " ", "a", "t", " ", "p", "o", "s", "i", "t", "i", "o", "n", " ">>
        ELSE IF text[pos + 1] = "\""
        THEN <<"U", "n", "e", "x", "p", "e", "c", "t", "e", "d", " ", "s", "t", "r", "i", "n", "g", " ", "i", "n", " ", "J", "S", "O", "N", " ", "a", "t", " ", "p", "o", "s", "i", "t", "i", "o", "n", " ">>
        ELSE IF text \in SpecialStrings
        THEN quote \o text \o quote \o <<" ", "i", "s", " ", "n", "o", "t", " ", "v", "a", "l", "i", "d", " ", "J", "S", "O", "N">>
        ELSE <<"U", "n", "e", "x", "p", "e", "c", "t", "e", "d", " ", "t", "o", "k", "e", "n", " ", "'">> \o <<text[pos + 1]>> \o <<"'", ",", " ">> \o shown \o <<" ", "i", "s", " ", "n", "o", "t", " ", "v", "a", "l", "i", "d", " ", "J", "S", "O", "N">>

\* JSON.parse(atob(data.content))                              (lines 156-157)
DecodeContent(content) ==
    IF content.json # "none"
    THEN [thrown |-> FALSE, json |-> content.json, value |-> content.items, message |-> <<>>]
    ELSE [thrown |-> TRUE, json |-> "none", value |-> <<>>, message |-> JsonParseMessage(content.items)]

\* the characters of a string, each a string
Chars(str) == [ i \in 1..Len(str) |-> << str[i] >> ]

\* the end of the message of the TypeError of new Set
IsNotIterable == <<" ", "i", "s", " ", "n", "o", "t", " ", "i", "t", "e", "r", "a", "b", "l", "e", " ", "(", "c", "a", "n", "n", "o", "t", " ", "r", "e", "a", "d", " ", "p", "r", "o", "p", "e", "r", "t", "y", " ", "S", "y", "m", "b", "o", "l", "(", "S", "y", "m", "b", "o", "l", ".", "i", "t", "e", "r", "a", "t", "o", "r", ")", ")">>

\* new Set(doneItems) for a parsed JSON value: an array gives its elements,
\* null the empty Set, a string its characters; anything else is not
\* iterable                                                         (line 158)
SetFrom(doneItems) ==
    CASE doneItems.json = "array"  -> [thrown |-> FALSE, value |-> NewSet(doneItems.value), message |-> <<>>]
      [] doneItems.json = "null"   -> [thrown |-> FALSE, value |-> <<>>, message |-> <<>>]
      [] doneItems.json = "string" -> [thrown |-> FALSE, value |-> NewSet(Chars(doneItems.value)), message |-> <<>>]
      [] OTHER                     -> [thrown |-> TRUE, value |-> <<>>, message |-> IsNotIterable]

\* "Not Found", "Bad credentials", "progress.json does not match"
NotFoundText == <<"N", "o", "t", " ", "F", "o", "u", "n", "d">>
BadCredentialsText == <<"B", "a", "d", " ", "c", "r", "e", "d", "e", "n", "t", "i", "a", "l", "s">>
ConflictText == <<"p", "r", "o", "g", "r", "e", "s", "s", ".", "j", "s", "o", "n", " ", "d", "o", "e", "s", " ", "n", "o", "t", " ", "m", "a", "t", "c", "h">>

\* line 127: "GitHub Repo and Personal Access Token must be provided."
MissingConfigMessage == <<"G", "i", "t", "H", "u", "b", " ", "R", "e", "p", "o", " ", "a", "n", "d", " ", "P", "e", "r", "s", "o", "n", "a", "l", " ", "A", "c", "c", "e", "s", "s", " ", "T", "o", "k", "e", "n", " ", "m", "u", "s", "t", " ", "b", "e", " ", "p", "r", "o", "v", "i", "d", "e", "d", ".">>
\* line 143: "GitHub API Error: " and the message of the answer
ApiErrorMessage(text) == <<"G", "i", "t", "H", "u", "b", " ", "A", "P", "I", " ", "E", "r", "r", "o", "r", ":", " ">> \o text

\* line 126: githubApiFetch throws before any request is made
MissingConfig(cred) == cred.repo = <<>> \/ cred.pat = <<>>

\* what the user may have typed into #github-repo and #github-pat
Credentials == { [repo |-> <<"owner/repo">>, pat |-> <<"token">>],
                 [repo |-> <<"owner/repo">>, pat |-> <<>>] }

\* history: who wrote the stored content (a Save, with its pre-call master
\* and its delta, or somebody else), and who had written what it replaced
NoSrc == [by |-> "none", master0 |-> {}, delta0 |-> {}, over |-> "none"]
ExtSrc == [by |-> "ext", master0 |-> {}, delta0 |-> {}, over |-> "none"]

NoDoc == [exists |-> FALSE, content |-> Garbage, src |-> NoSrc]

NoResp == [ok |-> FALSE, sha |-> NoSha, content |-> Garbage, message |-> <<>>, src |-> NoSrc]

OpIdle == [kind |-> "idle", pc |-> "", await |-> "", content |-> Garbage, sha |-> NoSha,
           resp |-> NoResp, master0 |-> {}, delta0 |-> {}]

\* updateSyncStatus(message, isError)                          (lines 114-117)
updateSyncStatus(text, isError) == [text |-> text, isError |-> isError]

\* ------------------------------------------------------------------- state
VARIABLES
    allQuestionsData,   \* line 21: NullData until IB.json has been fetched
    catalogFetch,       \* position of fetchQuestionData: "pending" or "done"
    masterDoneList,     \* line 22
    sessionDoneList,    \* line 23
    githubFileSha,      \* line 24
    resultsList,        \* the <li> items of #results-list, in order: [id, disabled, checked]
    syncStatus,         \* #sync-status as written by updateSyncStatus
    remote,             \* progress.json in the GitHub repository
    ops,                \* Load / Save invocations suspended at an await
    requests,           \* number of Load / Save invocations that reached the network
    externals,          \* number of changes made by other writers
    sel                 \* position of one run of the selection loops of generateQuestions

vars == << allQuestionsData, catalogFetch, masterDoneList, sessionDoneList,
           githubFileSha, resultsList, syncStatus, remote, ops, requests, externals, sel >>

\* ------------------------------------------------- selection (lines 260-306)
\* the two filters without line 263
FilterAvailableKeepDone(allAvailable, master, module, paper) ==
    LET byModule == IF module # All THEN SelectSeq(allAvailable, LAMBDA q : q.module = module) ELSE allAvailable
    IN  IF paper # All THEN SelectSeq(byModule, LAMBDA q : q.paper = paper) ELSE byModule

\* lines 262-271: drop completed questions, then apply the two filters
FilterAvailable(allAvailable, master, module, paper) ==
    LET notDone == SelectSeq(allAvailable, LAMBDA q : ~SetHas(master, q.id))
        byModule == IF module # All THEN SelectSeq(notDone, LAMBDA q : q.module = module) ELSE notDone
    IN  IF paper # All THEN SelectSeq(byModule, LAMBDA q : q.paper = paper) ELSE byModule

\* Object.keys of the reduce result of lines 278-283: modules by first appearance
RECURSIVE ModuleKeys(_)
ModuleKeys(available) ==
    IF available = <<>> THEN <<>>
    ELSE PushUnique(ModuleKeys(SubSeq(available, 1, Len(available) - 1)), available[Len(available)].module)

\* the properties that the accumulator {} of line 282 inherits from
\* Object.prototype
PrototypeKeys ==
    { <<"constructor">>, <<"toString">>, <<"toLocaleString">>, <<"valueOf">>, <<"hasOwnProperty">>,
      <<"isPrototypeOf">>, <<"propertyIsEnumerable">>, <<"__proto__">>, <<"__defineGetter__">>,
      <<"__defineSetter__">>, <<"__lookupGetter__">>, <<"__lookupSetter__">> }

\* lines 279-280: for a module named like an inherited property, acc[q.module]
\* is truthy, no bucket is created and push is not a function
GroupByModuleThrows(available) == \E i \in 1..Len(available) : available[i].module \in PrototypeKeys

\* lines 278-282: questionsByModule, when the reduce does not throw
GroupByModule(available) ==
    [ m \in Range(ModuleKeys(available)) |-> SelectSeq(available, LAMBDA q : q.module = m) ]

\* Math.floor(Math.random() * length)
RandomIndex(length) == IF length = 0 THEN {0} ELSE 0..(length - 1)

\* the locals of generateQuestions when the selection starts (line 273)
SelLocals(available, num, mode, module) ==
    [ pc |-> "start", mode |-> mode, module |-> module, num |-> num,
      pool |-> available,          \* history: the candidate pool handed to the selection
      available |-> available, questionsByModule |-> <<>>, moduleKeys |-> <<>>,
      idx |-> 0,                   \* position of the for...of iterator over moduleKeys
      count |-> 0, selected |-> <<>>,
      drawnInPass |-> {} ]         \* history: modules drawn from in the current for...of pass

\* lines 274-284 and 300: which selection runs
SelBranch(L) ==
    IF Len(L.available) = 0 THEN [L EXCEPT !.pc = "done"]
    ELSE IF L.mode = "homogeneous" /\ L.module = All
         THEN IF GroupByModuleThrows(L.available) THEN [L EXCEPT !.pc = "thrown"] ELSE
              [L EXCEPT !.pc = "while",
                        !.questionsByModule = GroupByModule(L.available),
                        !.moduleKeys = ModuleKeys(L.available),
                        !.count = 0]
         ELSE [L EXCEPT !.pc = "rand"]

\* line 285: the test of the while loop
WhileTest(L) ==
    IF L.count < L.num /\ Len(L.available) > 0
    THEN [L EXCEPT !.pc = "for", !.idx = 1, !.drawnInPass = {}]
    ELSE [L EXCEPT !.pc = "done"]

\* lines 287-296: one iteration of the for...of body, drawing index r
ForBody(L, r) ==
    LET mod      == L.moduleKeys[L.idx]
        bucket   == L.questionsByModule[mod]
        found    == r < Len(bucket)
        after    == IF found THEN SpliceOut(bucket, r) ELSE bucket
        keys     == IF Len(after) = 0
                    THEN SpliceOut(L.moduleKeys, IndexOf(L.moduleKeys, mod) - 1)
                    ELSE L.moduleKeys
    IN  [L EXCEPT !.questionsByModule = [L.questionsByModule EXCEPT ![mod] = after],
                  !.selected = IF found THEN Append(L.selected, bucket[r + 1]) ELSE L.selected,
                  !.count = IF found THEN L.count + 1 ELSE L.count,
                  !.drawnInPass = IF found THEN L.drawnInPass \cup {mod} ELSE L.drawnInPass,
                  !.moduleKeys = keys,
                  !.idx = L.idx + 1]

\* lines 286-297: one step of the for...of loop (the array iterator reads the
\* live length of moduleKeys)
ForStep(L) ==
    IF L.idx > Len(L.moduleKeys) THEN { [L EXCEPT !.pc = "while"] }
    ELSE IF L.count >= L.num THEN { [L EXCEPT !.pc = "while"] }
    ELSE { ForBody(L, r) : r \in RandomIndex(Len(L.questionsByModule[L.moduleKeys[L.idx]])) }

\* lines 302-305: one step of the fully random loop
RandomStep(L) ==
    IF Len(L.selected) < L.num /\ Len(L.available) > 0
    THEN { [L EXCEPT !.selected = Append(L.selected, L.available[r + 1]),
                     !.available = SpliceOut(L.available, r)] : r \in RandomIndex(Len(L.available)) }
    ELSE { [L EXCEPT !.pc = "done"] }

\* the successors of a position of the selection
SelSucc(L) ==
    CASE L.pc = "start" -> { SelBranch(L) }
      [] L.pc = "while" -> { WhileTest(L) }
      [] L.pc = "for"   -> ForStep(L)
      [] L.pc = "rand"  -> RandomStep(L)
      [] OTHER          -> {}

\* the while loop of line 285 can make no further progress: the rotation is
\* empty and the test still holds
Spinning(L) == L.pc = "while" /\ L.moduleKeys = <<>> /\ L.count < L.num /\ Len(L.available) > 0

\* every `selected` that generateQuestions can hand to renderResults (none
\* when the loop of line 285 never exits or line 280 has thrown)
RECURSIVE SelOutcomes(_)
SelOutcomes(L) ==
    IF L.pc = "done" THEN { L.selected }
    ELSE IF Spinning(L) THEN {}
    ELSE UNION { SelOutcomes(L2) : L2 \in SelSucc(L) }

\* --------------------------------------------- the selection on its own
CatName == <<"A", "B", "C", "D", "E">>
YearName == <<"2018", "2019", "2020", "2021", "2022">>
SelIdle == SelLocals(<<>>, 0, "random", All) 

\* a catalog with sizes[c] questions in module c, all of paper P1
SelCatalog(sizes) ==
    IBJson([ c \in 1..NumCats |->
        [ module |-> <<CatName[c]>>,
          papers |-> << [paper |-> <<"P1">>, years |-> [ y \in 1..sizes[c] |-> <<YearName[y]>> ]] >> ] ])

SelModules == { <<CatName[c]>> : c \in 1..NumCats }

\* the state after construction (lines 21-24) when `data` is NullData, the
\* state once fetchQuestionData has stored `data` otherwise; `slots` places
\* for suspended invocations
AppInit(slots, data) ==
    /\ allQuestionsData = data
    /\ catalogFetch = (IF data = NullData THEN "pending" ELSE "done")
    /\ masterDoneList = <<>>
    /\ sessionDoneList = <<>>
    /\ githubFileSha = <<>>
    /\ resultsList = <<>>
    /\ syncStatus = updateSyncStatus("", FALSE)
    /\ remote = NoDoc
    /\ ops = [ s \in 1..slots |-> OpIdle ]
    /\ requests = 0
    /\ externals = 0

MainInitVals == AppInit(MaxInFlight, NullData)

\* a click on Generate once IB.json, one of these catalogs, has been fetched
SelInit ==
    \E sizes \in [1..NumCats -> 0..MaxBucket], num \in (-1)..MaxNum,
       mode \in {"random", "homogeneous"}, module \in {All} \cup SelModules :
        /\ AppInit(MaxInFlight, SelCatalog(sizes))
        /\ sel = SelLocals(FilterAvailable(getFlattenedQuestions(allQuestionsData), masterDoneList, module, All),
                           num, mode, module)

\* renderResults: the list items built for `questions`         (lines 314-357)
renderResults(questions, master, session) ==
    [ i \in 1..Len(questions) |->
        [id |-> questions[i].id, disabled |-> SetHas(master, questions[i].id),
         checked |-> SetHas(session, questions[i].id)] ]

\* line 308: the step that leaves the selection with position L goes on to
\* renderResults(selected); the loops themselves touch only their locals
SelReturn(L) ==
    /\ resultsList' = IF L.pc = "done"
                      THEN renderResults(L.selected, masterDoneList, sessionDoneList)
                      ELSE resultsList
    /\ UNCHANGED << allQuestionsData, catalogFetch, masterDoneList, sessionDoneList,
                    githubFileSha, syncStatus, remote, ops, requests, externals >>

SelChoose  == sel.pc = "start" /\ sel' = SelBranch(sel)    /\ SelReturn(sel')
SelWhile   == sel.pc = "while" /\ sel' = WhileTest(sel)    /\ SelReturn(sel')
SelFor     == sel.pc = "for"   /\ sel' \in ForStep(sel)    /\ SelReturn(sel')
SelRandom  == sel.pc = "rand"  /\ sel' \in RandomStep(sel) /\ SelReturn(sel')

SelNext == SelChoose \/ SelWhile \/ SelFor \/ SelRandom

SelSpec == SelInit /\ [][SelNext]_vars
\* generateQuestions is synchronous: once called it runs on
SelFairSpec == SelSpec /\ WF_vars(SelNext)

\* ------------------------------------------------------- the application
\* the next invocation that reaches the network is suspended in slot s, the
\* first free one
InFlight == { t \in DOMAIN ops : ops[t].kind # "idle" }
FreeSlot(s) ==
    /\ ops[s].kind = "idle"
    /\ \A t \in DOMAIN ops : t < s => ops[t].kind # "idle"

Release(s) == [ops EXCEPT ![s] = OpIdle]

\* fetchQuestionData                                             (lines 54-63)
fetchQuestionData(ok, data) ==
    /\ catalogFetch = "pending"
    /\ catalogFetch' = "done"
    /\ IF ok
       THEN allQuestionsData' = data /\ UNCHANGED syncStatus
       ELSE allQuestionsData' = allQuestionsData
            /\ syncStatus' = updateSyncStatus("CatalogError", TRUE)
    /\ UNCHANGED << masterDoneList, sessionDoneList, githubFileSha, resultsList, remote, ops, requests, externals, sel >>

\* handleResultCheckboxChange: the user clicks an enabled checkbox (lines 100-109)
\* on the checkbox of list item i
handleResultCheckboxChange(i) ==
    /\ i \in 1..Len(resultsList)
    /\ ~resultsList[i].disabled
    /\ LET checked == ~resultsList[i].checked IN
        /\ resultsList' = [resultsList EXCEPT ![i].checked = checked]
        /\ sessionDoneList' = IF checked THEN SetAdd(sessionDoneList, resultsList[i].id)
                                         ELSE SetDelete(sessionDoneList, resultsList[i].id)
    /\ UNCHANGED << allQuestionsData, catalogFetch, masterDoneList, githubFileSha, syncStatus, remote, ops, requests, externals, sel >>

\* the values the two filter selects can hold (populateModuleFilter,
\* populatePaperFilter, lines 68-95)
ModuleChoices(data) == {All} \cup { data.michaelmas[m].module : m \in 1..Len(data.michaelmas) }
PaperChoices(data, module) ==
    IF module = All
    THEN {All}            \* line 86 returns before the catalog is read
    ELSE LET modules == data.michaelmas IN
         {All} \cup UNION { { modules[m].papers[p].paper : p \in 1..Len(modules[m].papers) } :
                            m \in { k \in 1..Len(modules) : modules[k].module = module } }

\* what the user may have put into #num-questions, the two filters and the
\* mode radio when Generate is clicked                           (lines 255-258)
GenerateInputs(data) ==
    UNION { { [num |-> num, module |-> module, paper |-> paper, mode |-> mode] :
                num \in 0..MaxGen, paper \in PaperChoices(data, module), mode \in {"random", "homogeneous"} } :
            module \in ModuleChoices(data) }

\* lines 260-306: every `selected` the click can produce for input `in`
GenerateSelected(data, master, in) ==
    SelOutcomes(SelLocals(FilterAvailable(getFlattenedQuestions(data), master, in.module, in.paper),
                          in.num, in.mode, in.module))

\* every `selected` a click can produce, over all the inputs
GenerateAll(data, master) ==
    UNION { GenerateSelected(data, master, in) : in \in GenerateInputs(data) }

\* GenerateAll for IB.json, by the completed questions of the catalog: line
\* 263 reads master through has() alone, so the ids of the catalog that
\* master holds decide the result
CatalogIds == [ i \in 1..Len(getFlattenedQuestions(Catalog)) |-> getFlattenedQuestions(Catalog)[i].id ]
GenerateTable ==
    { [done |-> done, selected |-> GenerateAll(Catalog, SelectSeq(CatalogIds, LAMBDA x : x \in done))] :
        done \in SUBSET AllIds }
GenerateByDone(done) == (CHOOSE row \in GenerateTable : row.done = done).selected

\* generateQuestions                                           (lines 249-309)
generateQuestions ==
    /\ IF allQuestionsData = NullData
       THEN /\ syncStatus' = updateSyncStatus("DataNotLoaded", TRUE)
            /\ UNCHANGED resultsList
       ELSE /\ \E rendered \in
                  { renderResults(selected, masterDoneList, sessionDoneList) :
                      selected \in IF allQuestionsData = Catalog
                                   THEN GenerateByDone(Range(masterDoneList) \cap AllIds)
                                   ELSE GenerateAll(allQuestionsData, masterDoneList) } :
                  resultsList' = rendered
            /\ UNCHANGED syncStatus
    /\ UNCHANGED << allQuestionsData, catalogFetch, masterDoneList, sessionDoneList, githubFileSha, remote, ops, requests, externals, sel >>

\* the catch block of loadProgressFromGithub                   (lines 160-167)
LoadCatch(message) ==
    IF Includes(message, NotFoundText)
    THEN /\ syncStatus' = updateSyncStatus("NotFound", FALSE)
         /\ masterDoneList' = <<>>
    ELSE /\ syncStatus' = updateSyncStatus("LoadError", TRUE)
         /\ UNCHANGED masterDoneList

\* loadProgressFromGithub up to the await of line 154          (lines 151-154)
loadProgressFromGithub(cred) ==
    /\ IF MissingConfig(cred)
       THEN /\ LoadCatch(MissingConfigMessage)
            /\ UNCHANGED << ops, requests >>
       ELSE /\ syncStatus' = updateSyncStatus("Loading", FALSE)
            /\ \E s \in DOMAIN ops :
                  /\ FreeSlot(s)
                  /\ ops' = [ops EXCEPT ![s] = [OpIdle EXCEPT !.kind = "load", !.pc = "sent", !.await = "GET"]]
            /\ requests' = requests + 1
            /\ UNCHANGED masterDoneList
    /\ UNCHANGED << allQuestionsData, catalogFetch, sessionDoneList, githubFileSha, resultsList, remote, externals, sel >>

\* loadProgressFromGithub from the return of line 154          (lines 154-167)
loadProgressResume(s) ==
    /\ ops[s].kind = "load" /\ ops[s].pc = "resp"
    /\ LET resp == ops[s].resp
           doneItems == DecodeContent(resp.content)
           made == SetFrom(doneItems)
       IN  IF resp.ok
           THEN /\ githubFileSha' = resp.sha
                /\ IF doneItems.thrown
                   THEN LoadCatch(doneItems.message)
                   ELSE IF made.thrown
                   THEN LoadCatch(made.message)
                   ELSE /\ masterDoneList' = made.value
                        /\ syncStatus' = updateSyncStatus("Loaded", FALSE)
           ELSE /\ LoadCatch(ApiErrorMessage(resp.message))
                /\ UNCHANGED githubFileSha
    /\ ops' = Release(s)
    /\ UNCHANGED << allQuestionsData, catalogFetch, sessionDoneList, resultsList, remote, requests, externals, sel >>

\* a guard that looks at the wrong Set
NothingToSaveWrongList(master, session) == Len(master) = 0

\* line 174: nothing to save
NothingToSave(master, session) == Len(session) = 0

\* a Save whose content is taken before the merge
MergeSessionSkipped(master, session) == master

\* line 182: the optimistic merge, sessionDoneList.forEach(masterDoneList.add):
\* the ids of the session that master lacks are appended in session order
MergeSession(master, session) == master \o SelectSeq(session, LAMBDA x : ~SetHas(master, x))

\* line 223: the revert, sessionDoneList.forEach(masterDoneList.delete)
RevertSession(master, session) == SelectSeq(master, LAMBDA x : ~SetHas(session, x))

\* the outer catch block of saveProgressToGithub               (lines 220-224)
SaveCatch(master) ==
    /\ syncStatus' = updateSyncStatus("SaveError", TRUE)
    /\ masterDoneList' = RevertSession(master, sessionDoneList)

\* saveProgressToGithub up to the await of line 190            (lines 173-190)
saveProgressToGithub(cred) ==
    /\ IF NothingToSave(masterDoneList, sessionDoneList)
       THEN /\ syncStatus' = updateSyncStatus("NoNew", TRUE)
            /\ UNCHANGED << masterDoneList, ops, requests >>
       ELSE LET merged == MergeSession(masterDoneList, sessionDoneList)
                encodedContent == EncodeContent(merged)
            IN
            IF encodedContent.thrown
            THEN \* line 185 is outside the try block: nothing is reverted
                 /\ syncStatus' = updateSyncStatus("Saving", FALSE)
                 /\ masterDoneList' = merged
                 /\ UNCHANGED << ops, requests >>
            ELSE IF MissingConfig(cred)
            THEN /\ SaveCatch(merged)
                 /\ UNCHANGED << ops, requests >>
            ELSE /\ syncStatus' = updateSyncStatus("Saving", FALSE)
                 /\ masterDoneList' = merged
                 /\ requests' = requests + 1
                 /\ \E s \in DOMAIN ops :
                       /\ FreeSlot(s)
                       /\ ops' = [ops EXCEPT ![s] =
                                    [OpIdle EXCEPT !.kind = "save", !.pc = "sent", !.await = "GET",
                                                   !.content = encodedContent.value,
                                                   !.master0 = Range(masterDoneList),
                                                   !.delta0 = Range(sessionDoneList)]]
    /\ UNCHANGED << allQuestionsData, catalogFetch, sessionDoneList, githubFileSha, resultsList, remote, externals, sel >>

\* an inner catch block that swallows every error of the re-fetch
RefetchNeverRethrown(resp) == FALSE

\* line 194: the inner catch block throws the error of the re-fetch again
RefetchRethrown(resp) == ~resp.ok /\ ~Includes(ApiErrorMessage(resp.message), NotFoundText)

\* a request body that takes the sha the variable held before the re-fetch
RefetchShaStale(resp) == githubFileSha

\* lines 191 and 195: the sha the re-fetch leaves in githubFileSha, which
\* line 201 puts into the request body
RefetchSha(resp) == IF resp.ok THEN resp.sha ELSE NoSha

\* saveProgressToGithub from the return of line 190 to the await of line 204
saveProgressAfterGet(s, cred) ==
    /\ ops[s].kind = "save" /\ ops[s].pc = "resp" /\ ops[s].await = "GET"
    /\ LET resp == ops[s].resp
           rethrown == RefetchRethrown(resp)
           sha == RefetchSha(resp)
       IN  IF rethrown
           THEN /\ SaveCatch(masterDoneList)
                /\ ops' = Release(s)
                /\ UNCHANGED githubFileSha
           ELSE /\ githubFileSha' = sha
                /\ IF MissingConfig(cred)
                   THEN /\ SaveCatch(masterDoneList)
                        /\ ops' = Release(s)
                   ELSE /\ ops' = [ops EXCEPT ![s] = [@ EXCEPT !.pc = "sent", !.await = "PUT",
                                                               !.sha = sha, !.resp = NoResp]]
                        /\ UNCHANGED << masterDoneList, syncStatus >>
    /\ UNCHANGED << allQuestionsData, catalogFetch, sessionDoneList, resultsList, remote, requests, externals, sel >>

\* saveProgressToGithub from the return of line 204            (lines 204-224)
saveProgressAfterPut(s) ==
    /\ ops[s].kind = "save" /\ ops[s].pc = "resp" /\ ops[s].await = "PUT"
    /\ LET resp == ops[s].resp
           displayedQuestionIds == [ i \in 1..Len(resultsList) |-> resultsList[i].id ]
       IN  IF resp.ok
           THEN /\ githubFileSha' = resp.sha
                /\ sessionDoneList' = <<>>
                /\ IF allQuestionsData = NullData
                   THEN \* getFlattenedQuestions throws inside the try block
                        /\ syncStatus' = updateSyncStatus("SaveError", TRUE)
                        /\ masterDoneList' = RevertSession(masterDoneList, <<>>)
                        /\ UNCHANGED resultsList
                   ELSE /\ syncStatus' = updateSyncStatus("Saved", FALSE)
                        /\ resultsList' = renderResults(
                               SelectSeq(getFlattenedQuestions(allQuestionsData),
                                         LAMBDA q : q.id \in Range(displayedQuestionIds)),
                               masterDoneList, <<>>)
                        /\ UNCHANGED masterDoneList
           ELSE /\ SaveCatch(masterDoneList)
                /\ UNCHANGED << githubFileSha, sessionDoneList, resultsList >>
    /\ ops' = Release(s)
    /\ UNCHANGED << allQuestionsData, catalogFetch, remote, requests, externals, sel >>

\* ------------------------------------------------------------- environment
\* the answers the contents API can give to GET /contents/progress.json
GetResponses(doc) ==
    { IF doc.exists
      THEN [ok |-> TRUE, sha |-> ShaOf(doc.content), content |-> doc.content, message |-> <<>>, src |-> doc.src]
      ELSE [NoResp EXCEPT !.message = NotFoundText],
      [NoResp EXCEPT !.message = BadCredentialsText] }

\* the API answers the GET of slot s (the history of the content is kept
\* for a Load only: a Save reads nothing but the sha, line 191)
RemoteGet(s) ==
    /\ ops[s].pc = "sent" /\ ops[s].await = "GET"
    /\ \E resp \in GetResponses(remote) :
          ops' = [ops EXCEPT ![s] = [@ EXCEPT !.pc = "resp",
                     !.resp = IF ops[s].kind = "save" THEN [resp EXCEPT !.src = NoSrc] ELSE resp]]
    /\ UNCHANGED << allQuestionsData, catalogFetch, masterDoneList, sessionDoneList, githubFileSha,
                    resultsList, syncStatus, remote, requests, externals, sel >>

\* update-if-match: the sha of the request names the stored blob, or is null
\* and nothing is stored
ShaMatches(doc, sha) == IF doc.exists THEN sha = ShaOf(doc.content) ELSE sha = NoSha

\* the API answers the PUT of slot s: it stores the content when the sha
\* matches, rejects the request otherwise, or fails for another reason
RemotePut(s) ==
    /\ ops[s].pc = "sent" /\ ops[s].await = "PUT"
    /\ \/ /\ ShaMatches(remote, ops[s].sha)
          /\ remote' = [exists |-> TRUE, content |-> ops[s].content,
                        src |-> [by |-> "save", master0 |-> ops[s].master0, delta0 |-> ops[s].delta0,
                                over |-> remote.src.by]]
          /\ ops' = [ops EXCEPT ![s] = [@ EXCEPT !.pc = "resp",
                        !.resp = [NoResp EXCEPT !.ok = TRUE, !.sha = ShaOf(ops[s].content)]]]
       \/ /\ ~ShaMatches(remote, ops[s].sha)
          /\ ops' = [ops EXCEPT ![s] = [@ EXCEPT !.pc = "resp", !.resp = [NoResp EXCEPT !.message = ConflictText]]]
          /\ UNCHANGED remote
       \/ /\ ops' = [ops EXCEPT ![s] = [@ EXCEPT !.pc = "resp", !.resp = [NoResp EXCEPT !.message = BadCredentialsText]]]
          /\ UNCHANGED remote
    /\ UNCHANGED << allQuestionsData, catalogFetch, masterDoneList, sessionDoneList, githubFileSha,
                    resultsList, syncStatus, requests, externals, sel >>

\* another session marks question id as done and saves: progress.json is
\* created or extended (with an id that line 185 can encode)
ExternalMark(id) ==
    /\ externals < MaxExternal
    /\ ~remote.exists \/ remote.content.json = "array"
    /\ Latin1(id)
    /\ LET stored == IF remote.exists THEN NewSet(remote.content.items) ELSE <<>> IN
        /\ ~SetHas(stored, id)
        /\ remote' = [exists |-> TRUE, content |-> JsonArray(ArrayFrom(SetAdd(stored, id))), src |-> ExtSrc]
    /\ externals' = externals + 1
    /\ UNCHANGED << allQuestionsData, catalogFetch, masterDoneList, sessionDoneList, githubFileSha,
                    resultsList, syncStatus, ops, requests, sel >>

\* a text of ContextMinLength characters or more that is not JSON and
\* ends in Not Found: "xxxxxxxxxxxx Not Found"
LongText == <<"x", "x", "x", "x", "x", "x", "x", "x", "x", "x", "x", "x", " ">> \o NotFoundText

\* what another writer may store that is not a JSON array of ids: JSON
\* null, the JSON string "aba", a JSON number, and two texts that are not
\* JSON, one short and one long
CorruptContents ==
    { JsonNull, JsonString(<<"a", "b", "a">>), JsonOther, NotJson(NotFoundText), NotJson(LongText) }

\* another writer stores something that is not base64 of a JSON array of ids
ExternalCorrupt(content) ==
    /\ externals < MaxExternal
    /\ ~(remote.exists /\ remote.content = content)
    /\ remote' = [exists |-> TRUE, content |-> content, src |-> ExtSrc]
    /\ externals' = externals + 1
    /\ UNCHANGED << allQuestionsData, catalogFetch, masterDoneList, sessionDoneList, githubFileSha,
                    resultsList, syncStatus, ops, requests, sel >>

\* another writer deletes progress.json
ExternalDelete ==
    /\ remote.exists
    /\ remote' = NoDoc
    /\ externals < MaxExternal
    /\ externals' = externals + 1
    /\ UNCHANGED << allQuestionsData, catalogFetch, masterDoneList, sessionDoneList, githubFileSha,
                    resultsList, syncStatus, ops, requests, sel >>

\* ---------------------------------------------------------- specification
Init == MainInitVals /\ sel = SelIdle

Next ==
    \/ \E ok \in BOOLEAN, data \in Catalogs : fetchQuestionData(ok, data)
    \/ \E i \in 1..Len(resultsList) : handleResultCheckboxChange(i)
    \/ generateQuestions
    \/ \E cred \in Credentials : loadProgressFromGithub(cred) /\ requests' <= MaxRequests
    \/ \E s \in DOMAIN ops : loadProgressResume(s)
    \/ \E cred \in Credentials : saveProgressToGithub(cred) /\ requests' <= MaxRequests
    \/ \E s \in DOMAIN ops, cred \in Credentials : saveProgressAfterGet(s, cred)
    \/ \E s \in DOMAIN ops : saveProgressAfterPut(s)
    \/ \E s \in DOMAIN ops : RemoteGet(s)
    \/ \E s \in DOMAIN ops : RemotePut(s)
    \/ \E id \in AllIds : ExternalMark(id)
    \/ \E content \in CorruptContents : ExternalCorrupt(content)
    \/ ExternalDelete

Spec == Init /\ [][Next]_vars

\* the session alone with progress.json, once IB.json has been fetched: no
\* other writer, and invocations that overlap (the click listeners of lines
\* 32-33 start a new invocation whatever is still suspended)
ConcInit == AppInit(MaxOverlap, Catalog) /\ sel = SelIdle

ConcNext ==
    \/ \E i \in 1..Len(resultsList) : handleResultCheckboxChange(i)
    \/ generateQuestions
    \/ \E cred \in Credentials : loadProgressFromGithub(cred) /\ requests' <= MaxRequests
    \/ \E s \in DOMAIN ops : loadProgressResume(s)
    \/ \E cred \in Credentials : saveProgressToGithub(cred) /\ requests' <= MaxRequests
    \/ \E s \in DOMAIN ops, cred \in Credentials : saveProgressAfterGet(s, cred)
    \/ \E s \in DOMAIN ops : saveProgressAfterPut(s)
    \/ \E s \in DOMAIN ops : RemoteGet(s)
    \/ \E s \in DOMAIN ops : RemotePut(s)

ConcSpec == ConcInit /\ [][ConcNext]_vars

\* the session over several rounds of Save and Load, one invocation at a
\* time, once IB.json has been fetched: no other writer
RoundInit == AppInit(MaxInFlight, Catalog) /\ sel = SelIdle

RoundNext ==
    \/ \E i \in 1..Len(resultsList) : handleResultCheckboxChange(i)
    \/ generateQuestions
    \/ \E cred \in Credentials : loadProgressFromGithub(cred) /\ requests' <= MaxRounds
    \/ \E s \in DOMAIN ops : loadProgressResume(s)
    \/ \E cred \in Credentials : saveProgressToGithub(cred) /\ requests' <= MaxRounds
    \/ \E s \in DOMAIN ops, cred \in Credentials : saveProgressAfterGet(s, cred)
    \/ \E s \in DOMAIN ops : saveProgressAfterPut(s)
    \/ \E s \in DOMAIN ops : RemoteGet(s)
    \/ \E s \in DOMAIN ops : RemotePut(s)

RoundSpec == RoundInit /\ [][RoundNext]_vars

\* a click on Generate after a Load of a progress.json that holds `master`:
\* the catalog has MaxBucket questions in each of NumCats modules
GenCatalog == SelCatalog([ c \in 1..NumCats |-> MaxBucket ])

\* the ids of up to MaxDone questions, in the order of the catalog
GenMasters ==
    LET ids == [ i \in 1..Len(getFlattenedQuestions(GenCatalog)) |-> getFlattenedQuestions(GenCatalog)[i].id ]
    IN  { SelectSeq(ids, LAMBDA x : x \in m) : m \in { d \in SUBSET Range(ids) : Cardinality(d) <= MaxDone } }

GenInit ==
    \E master \in GenMasters, num \in 0..MaxNum, mode \in {"random", "homogeneous"},
       module \in ModuleChoices(GenCatalog) :
      \E paper \in PaperChoices(GenCatalog, module) :
        /\ allQuestionsData = GenCatalog
        /\ catalogFetch = "done"
        /\ masterDoneList = master
        /\ sessionDoneList = <<>>
        /\ githubFileSha = ShaOf(JsonArray(master))
        /\ resultsList = <<>>
        /\ syncStatus = updateSyncStatus("Loaded", FALSE)
        /\ remote = [exists |-> TRUE, content |-> JsonArray(master), src |-> ExtSrc]
        /\ ops = [ s \in 1..MaxInFlight |-> OpIdle ]
        /\ requests = 1
        /\ externals = 1
        /\ sel = SelLocals(FilterAvailable(getFlattenedQuestions(allQuestionsData), masterDoneList, module, paper),
                           num, mode, module)

GenSpec == GenInit /\ [][SelNext]_vars

\* catalogs whose names hold the separator of line 238 or are a property of
\* Object.prototype, and whose lists may repeat a label: two modules (the
\* keys of an object differ), one paper each
FlatModules == { <<"A">>, <<"A", "_", "B">>, <<"constructor">> }
FlatPapers == { <<"C">>, <<"B", "_", "C">> }
FlatLabels == { <<"2019">>, <<"2020">> }
FlatLists == UNION { [ 1..n -> FlatLabels ] : n \in 0..MaxLabels }

FlatEntries ==
    { [module |-> m, papers |-> << [paper |-> p, years |-> y] >>] :
        m \in FlatModules, p \in FlatPapers, y \in FlatLists }

FlatCatalogs ==
    { IBJson(modules) : modules \in { m \in FlatEntries \X FlatEntries : m[1].module # m[2].module } }

\* a click on Generate, no filter set, once one of these catalogs is loaded
FlatInit ==
    \E data \in FlatCatalogs, num \in 0..MaxNum, mode \in {"random", "homogeneous"} :
        /\ AppInit(MaxInFlight, data)
        /\ sel = SelLocals(FilterAvailable(getFlattenedQuestions(allQuestionsData), masterDoneList, All, All),
                           num, mode, All)

FlatSpec == FlatInit /\ [][SelNext]_vars

\* -------------------------------------------- claims on the synchronisation
Slots == DOMAIN ops

\* the ids stored in progress.json
StoredIds(doc) == IF doc.exists /\ doc.content.json = "array" THEN Range(doc.content.items) ELSE {}

\* steps: the Save of slot s ends in its catch block; its PUT is stored; the
\* Load of slot s ends
SaveFailsIn(s) ==
    /\ ops[s].kind = "save" /\ ops[s].pc = "resp"
    /\ ops'[s].kind = "idle" /\ syncStatus'.text = "SaveError"
SaveWrites(s) ==
    /\ ops[s].kind = "save" /\ ops[s].await = "PUT" /\ ops[s].pc = "sent"
    /\ ops'[s].pc = "resp" /\ ops'[s].resp.ok
LoadEnds(s) == ops[s].kind = "load" /\ ops[s].pc = "resp" /\ ops'[s].kind = "idle"

\* nothing but the Save of slot s has touched master or the session delta
\* since it was invoked
Undisturbed(s) ==
    /\ Range(masterDoneList) = ops[s].master0 \cup ops[s].delta0
    /\ Range(sessionDoneList) = ops[s].delta0

\* C1: when a Save with a non-empty delta fails at the re-fetch or at the
\* write, master is afterwards exactly the master of before the call and the
\* session delta is the delta of the call.
SaveFailureRestoresMaster ==
    [][ \A s \in Slots :
          (SaveFailsIn(s) /\ Undisturbed(s)) =>
              /\ Range(masterDoneList') = ops[s].master0
              /\ Range(sessionDoneList') = ops[s].delta0 ]_vars

\* C2: the write of a Save leaves in progress.json every id that was stored
\* just before the write, and adds the ids of the delta.
SaveKeepsRemoteIds ==
    [][ \A s \in Slots :
          SaveWrites(s) => (StoredIds(remote) \cup ops[s].delta0) \subseteq StoredIds(remote') ]_vars

\* C3: a Load that reads what a Save(delta) wrote yields the union of that
\* Save's pre-call master and delta: a superset of delta, and the same set
\* again when the Save and the Load are repeated (a Save of ids that master
\* already held leaves the loaded set as master was).
SaveThenLoadUnion ==
    [][ \A s \in Slots :
          (LoadEnds(s) /\ ops[s].resp.ok /\ ops[s].resp.src.by = "save") =>
              /\ ops[s].resp.src.delta0 \subseteq Range(masterDoneList')
              /\ Range(masterDoneList') = ops[s].resp.src.master0 \cup ops[s].resp.src.delta0
              /\ ops[s].resp.src.delta0 \subseteq ops[s].resp.src.master0 =>
                    Range(masterDoneList') = ops[s].resp.src.master0 ]_vars

\* with no other writer, Save and Load have been repeated: the last Load
\* has read what a Save wrote on top of a master that an earlier Save had
\* filled
SaveThenLoadReached ==
    /\ syncStatus.text = "Loaded" /\ InFlight = {} /\ requests = MaxRounds /\ externals = 0
    /\ remote.exists /\ remote.src.by = "save" /\ remote.src.over = "save"
    /\ remote.src.master0 # {} /\ remote.src.delta0 # {}
    /\ Range(masterDoneList) = remote.src.master0 \cup remote.src.delta0

\* C4: a Save invoked with an empty session delta makes no request and leaves
\* master, the sha, the session delta and progress.json as they are.
SaveEmptyIsNoOp ==
    [][ \A cred \in Credentials :
          (sessionDoneList = <<>> /\ saveProgressToGithub(cred)) =>
              UNCHANGED << masterDoneList, githubFileSha, sessionDoneList, ops, requests, remote >> ]_vars

\* Save has been clicked with nothing marked, after a successful Load of a
\* non-empty master
SaveEmptyReached ==
    /\ syncStatus.text = "NoNew" /\ sessionDoneList = <<>>
    /\ masterDoneList # <<>> /\ githubFileSha # NoSha

\* C5: a Load that finds no progress.json leaves master empty and the sha
\* null, and reports no error.
LoadNotFoundResets ==
    [][ \A s \in Slots :
          (LoadEnds(s) /\ ~ops[s].resp.ok /\ ops[s].resp.message = NotFoundText) =>
              /\ masterDoneList' = <<>>
              /\ githubFileSha' = NoSha
              /\ ~syncStatus'.isError ]_vars

\* C6: a Load that fails for another reason than an absent progress.json
\* (no configuration, an API error, content that cannot be decoded) reports
\* an error and leaves master and the sha as they were.
LoadFailureKeepsState ==
    [][ /\ \A s \in Slots :
              ( /\ LoadEnds(s)
                /\ \/ ~ops[s].resp.ok /\ ops[s].resp.message # NotFoundText
                   \/ ops[s].resp.ok /\ ops[s].resp.content.json \in {"none", "other"} ) =>
                  /\ syncStatus'.isError
                  /\ masterDoneList' = masterDoneList
                  /\ githubFileSha' = githubFileSha
        /\ \A cred \in Credentials :
              (MissingConfig(cred) /\ loadProgressFromGithub(cred)) =>
                  /\ syncStatus'.isError
                  /\ masterDoneList' = masterDoneList
                  /\ githubFileSha' = githubFileSha ]_vars

\* ------------------------------------------------- claims on the selection
PoolIds(L) == { q.id : q \in Range(L.pool) }
PoolModules(L) == { q.module : q \in Range(L.pool) }
DrawnFrom(L, m) == Cardinality({ i \in 1..Len(L.selected) : L.selected[i].module = m })

\* C7: for every pool, every N and both modes the selection comes to a
\* result (its loops do not run on for ever and do not throw), and the
\* result, which is what line 308 renders, has exactly min(N, |pool|)
\* records (none when N <= 0 or the pool is empty), no id twice, and only
\* ids of the pool.
SelectionResultExact ==
    /\ ~Spinning(sel)
    /\ sel.pc # "thrown"
    /\ sel.pc = "done" =>
        /\ Len(sel.selected) = (IF sel.num <= 0 THEN 0 ELSE Min(sel.num, Len(sel.pool)))
        /\ \A i, j \in 1..Len(sel.selected) : i # j => sel.selected[i].id # sel.selected[j].id
        /\ \A i \in 1..Len(sel.selected) : sel.selected[i].id \in PoolIds(sel)
        /\ resultsList = renderResults(sel.selected, masterDoneList, sessionDoneList)

\* C8: every selection terminates, also when N exceeds the size of the pool.
SelectionTerminates == <>(sel.pc = "done")

\* C9: at the end of every complete rotation pass that leaves the target
\* count unreached, every module that still has candidates was drawn from in
\* that pass, and the numbers drawn from any two modules that still have
\* candidates differ by at most one.
RotationFair ==
    (sel.pc = "for" /\ sel.idx > Len(sel.moduleKeys) /\ sel.count < sel.num) =>
        \A a \in PoolModules(sel) :
            sel.questionsByModule[a] # <<>> =>
                /\ a \in sel.drawnInPass
                /\ \A b \in PoolModules(sel) :
                      sel.questionsByModule[b] # <<>> =>
                          DrawnFrom(sel, a) - DrawnFrom(sel, b) <= 1

\* C10: balanced selection with no module pinned and N equal to the number
\* of modules in the pool returns exactly one record of each module.
OnePerModule ==
    ( /\ sel.pc = "done" /\ sel.mode = "homogeneous" /\ sel.module = All
      /\ sel.pool # <<>> /\ sel.num = Cardinality(PoolModules(sel)) ) =>
        \A m \in PoolModules(sel) : DrawnFrom(sel, m) = 1

\* C11: whatever the mode and the filters, no id that is in master when
\* Generate is clicked is among the questions the selection picks, nor among
\* the items that line 308 renders from them.
GenerateSkipsDone ==
    /\ \A i \in 1..Len(sel.selected) : ~SetHas(masterDoneList, sel.selected[i].id)
    /\ \A i \in 1..Len(resultsList) : ~SetHas(masterDoneList, resultsList[i].id)

\* a generation over all modules has returned and rendered the requested
\* number of questions while questions of the catalog were completed
GenerateSkipsDoneReached ==
    /\ sel.pc = "done" /\ sel.module = All /\ masterDoneList # <<>>
    /\ sel.num >= 2 /\ Len(sel.selected) = sel.num
    /\ Len(resultsList) = sel.num

\* ----------------------------------- claims on overlapping invocations
\* the Saves suspended at an await
SavesInFlight == { s \in Slots : ops[s].kind = "save" }

\* the Save of slot s ends after a successful write
SaveSucceedsIn(s) ==
    /\ ops[s].kind = "save" /\ ops[s].pc = "resp" /\ ops[s].await = "PUT" /\ ops[s].resp.ok
    /\ ops'[s].kind = "idle"

\* C12: at any time at most one Save is between its start and its
\* completion.
OneSaveInFlight == Cardinality(SavesInFlight) <= 1

\* C13: an id is added to the session delta only while it is absent from
\* master (stated for the checkbox changes made while no Load or Save is
\* suspended, so that master holds no optimistic merge).
MarkedOnlyWhenNotDone ==
    [][ \A i \in 1..Len(resultsList) :
          (InFlight = {} /\ handleResultCheckboxChange(i) /\ ~resultsList[i].checked) =>
              ~SetHas(masterDoneList, resultsList[i].id) ]_vars

\* C14: when a Save ends successfully and empties the session delta, every
\* id it removes from the delta is in the content this Save wrote and in
\* master (stated for the Saves during which nothing but checkbox changes
\* touched the session: master is still the merge of the call).
SaveClearsOnlyPersisted ==
    [][ \A s \in Slots :
          (SaveSucceedsIn(s) /\ Range(masterDoneList) = ops[s].master0 \cup ops[s].delta0) =>
              /\ sessionDoneList' = <<>>
              /\ Range(sessionDoneList) \subseteq Range(ops[s].content.items)
              /\ Range(sessionDoneList) \subseteq Range(masterDoneList') ]_vars

\* C15: when a Save fails, master afterwards holds none of the ids that the
\* merge of this Save added to it.
RollbackRemovesMerged ==
    [][ \A s \in Slots :
          SaveFailsIn(s) =>
              Range(masterDoneList') \cap (ops[s].delta0 \ ops[s].master0) = {} ]_vars

\* the token of progress.json as the contents API reports it
RemoteSha(doc) == IF doc.exists THEN ShaOf(doc.content) ELSE NoSha

\* the last Load or Save to complete ended without an error
LastCompletedSucceeded == syncStatus.text \in {"Loaded", "NotFound", "Saved"}

\* C16: with no other writer, whenever no Load or Save is suspended and the
\* last one to complete succeeded, master is the set of ids stored in
\* progress.json and githubFileSha is the current sha of progress.json.
QuiescentMatchesRemote ==
    (InFlight = {} /\ LastCompletedSucceeded) =>
        /\ Range(masterDoneList) = StoredIds(remote)
        /\ githubFileSha = RemoteSha(remote)

\* -------------------------------------------- claims on the Save protocol
\* positions of the Save of slot s
SaveAt(op, await, pc) == op.kind = "save" /\ op.await = await /\ op.pc = pc

\* C17: a Save sends its re-fetch only when it starts, sends its write only
\* on the answer to that re-fetch and only when the answer is a success or
\* Not Found, and ends on the answer to the write, whatever that answer is.
SaveSingleAttempt ==
    [][ \A s \in Slots :
          /\ (SaveAt(ops'[s], "GET", "sent") /\ ops'[s] # ops[s]) => ops[s].kind = "idle"
          /\ (SaveAt(ops'[s], "PUT", "sent") /\ ops'[s] # ops[s]) =>
                 /\ SaveAt(ops[s], "GET", "resp")
                 /\ ops[s].resp.ok \/ ops[s].resp.message = NotFoundText
          /\ (SaveAt(ops[s], "GET", "resp") /\ ops'[s] # ops[s]
                 /\ ~ops[s].resp.ok /\ ops[s].resp.message # NotFoundText) =>
                 ops'[s].kind = "idle" /\ remote' = remote
          /\ (SaveAt(ops[s], "PUT", "resp") /\ ops'[s] # ops[s]) => ops'[s].kind = "idle" ]_vars

\* the write of a Save has been rejected because progress.json changed
\* after the re-fetch
SaveConflictReached ==
    \E s \in Slots : SaveAt(ops[s], "PUT", "resp") /\ ops[s].resp.message = ConflictText

\* C18: the sha in the write of a Save is the sha its own re-fetch returned,
\* or null when the re-fetch reported Not Found, whatever another Load or
\* Save has put into githubFileSha since; after a successful write
\* githubFileSha is the sha that the write returned.
SaveSendsOwnSha ==
    [][ \A s \in Slots :
          /\ (SaveAt(ops[s], "GET", "resp") /\ SaveAt(ops'[s], "PUT", "sent")) =>
                 ops'[s].sha = (IF ops[s].resp.ok THEN ops[s].resp.sha ELSE NoSha)
          /\ (SaveAt(ops[s], "PUT", "sent") /\ SaveAt(ops'[s], "PUT", "resp")) =>
                 ops'[s].sha = ops[s].sha
          /\ SaveSucceedsIn(s) => githubFileSha' = ops[s].resp.sha ]_vars

\* the write of a Save is on its way with the sha of its own re-fetch while
\* another invocation has put a different sha into githubFileSha
SaveSendsOwnShaReached ==
    \E s \in Slots : SaveAt(ops[s], "PUT", "sent") /\ ops[s].sha # githubFileSha

\* ------------------------------------------------ claims on the flattening
\* C19: the pool that getFlattenedQuestions hands to the selection holds no
\* two records with the same id.
PoolIdsDistinct ==
    \A i, j \in 1..Len(sel.pool) : i # j => sel.pool[i].id # sel.pool[j].id

====
